---- MODULE Spec2Model ----
(***************************************************************************)
(* Model of reaper/reaper.py: one run of main().  Strings are sequences of *)
(* tokens; the tokens "DOCKER|" and ".azurecr.io/" stand for those literal *)
(* substrings, ":" for a colon, every other token for colon-free text.     *)
(* Provider calls (web apps API, registry API) take their answer, or their *)
(* failure, nondeterministically when the call is made.                    *)
(* ParseSpec applies the image reference parser, and the collector block  *)
(* that calls it, to every locator up to MaxLocatorLen tokens.             *)
(***************************************************************************)
EXTENDS Integers, Sequences, FiniteSets, TLC

VARIABLES argv, env_ok, config_file,
          pc, exit_status, dry_run, web_apps,
          app_idx, slots, slot_idx, images, repositories,
          all_images, all_repositories,
          live, fetched, web_calls, provider_contacted,
          todo, enumerated, unused_images,
          del_repo, del_tag, deletion_results, delete_calls,
          cleanup_todo, cleanup_visited, untagged_found, manifest_calls,
          summary,
          image_url, image_extracted

vars == <<argv, env_ok, config_file, pc, exit_status, dry_run, web_apps,
          app_idx, slots, slot_idx, images, repositories,
          all_images, all_repositories, live, fetched, web_calls,
          provider_contacted, todo, enumerated, unused_images,
          del_repo, del_tag, deletion_results, delete_calls,
          cleanup_todo, cleanup_visited, untagged_found, manifest_calls,
          summary, image_url, image_extracted>>

(* ------------------------------ bounds -------------------------------- *)
MaxApps == 2
MaxSlots == 1
MaxTags == 2
MaxManifests == 1
MaxLocatorLen == 5

(* ------------------------------ strings ------------------------------- *)
DockerMarker == "DOCKER|"
AcrHost == ".azurecr.io/"
Colon == ":"

\* linux_fx_version / windows_fx_version values the web apps API may hold;
\* <<>> is the absent (None or empty) field.
FxVersions ==
    { <<>>,
      <<DockerMarker, "r1", Colon, "v1">>,
      <<DockerMarker, "reg", AcrHost, "r1", Colon, "v2">>,
      <<DockerMarker, "r2", Colon, "v1">>,
      <<DockerMarker, "r1">>,
      <<"PYTHON|", "3.9">> }

\* the text a locator is made of: a colon, the registry host suffix, and
\* two pieces of colon-free text
LocatorTokens == { Colon, AcrHost, "a", "b" }

\* every string extract_web_apps_images may be handed, the empty one included
Locators == UNION { [1..n -> LocatorTokens] : n \in 0..MaxLocatorLen }

SiteConfigs == [linux_fx_version : FxVersions, windows_fx_version : FxVersions]

TagNames == { <<"v1">>, <<"v2">>, <<"v3">> }

Range(s) == { s[i] : i \in 1..Len(s) }

NoDup(s) == \A i, j \in 1..Len(s) : s[i] = s[j] => i = j

\* Tag listings of one repository (tag names are unique in a repository).
TagLists == { s \in UNION { [1..n -> TagNames] : n \in 0..MaxTags } : NoDup(s) }

\* Manifest listings: digests are 1..n, each with or without tags.
ManifestLists ==
    { [i \in 1..n |-> [digest |-> i, tagged |-> i \in T]] :
        n \in 0..MaxManifests, T \in SUBSET (1..MaxManifests) }

(* --------------------------- configuration ---------------------------- *)
\* What --config-path names: no file, a file that is not JSON, a JSON
\* value that is not an object, an object without "webApps", an object
\* whose "webApps" is not a list, or an object with a list of n names.
ConfigFiles ==
    { [kind |-> k, webApps |-> <<>>] :
        k \in {"missing", "invalid_json", "not_object", "no_webApps", "webApps_not_list"} }
    \cup { [kind |-> "ok", webApps |-> [i \in 1..n |-> i]] : n \in 0..MaxApps }

\* load_configs without the isinstance(config['webApps'], list) check
load_configs_ListNotChecked(file) ==
    CASE file.kind \in {"missing", "invalid_json", "not_object"}
                                        -> [raised |-> TRUE,  web_apps |-> <<>>]
      [] file.kind \in {"webApps_not_list", "no_webApps"}
                                        -> [raised |-> FALSE, web_apps |-> <<>>]
      [] OTHER                          -> [raised |-> FALSE, web_apps |-> file.webApps]

load_configs(file) ==
    CASE file.kind = "missing"          -> [raised |-> TRUE,  web_apps |-> <<>>]
      [] file.kind = "invalid_json"     -> [raised |-> TRUE,  web_apps |-> <<>>]
      [] file.kind = "not_object"       -> [raised |-> TRUE,  web_apps |-> <<>>]
      [] file.kind = "webApps_not_list" -> [raised |-> TRUE,  web_apps |-> <<>>]
      [] file.kind = "no_webApps"       -> [raised |-> FALSE, web_apps |-> <<>>]
      [] OTHER                          -> [raised |-> FALSE, web_apps |-> file.webApps]

\* argparse: --dry-run is store_true with default True, so it is True
\* whether or not the option is given.
parse_args(options) ==
    [dry_run |-> TRUE, execute |-> options.execute,
     cleanup_manifests |-> options.cleanup_manifests]

\* dry_run = args.execute: the negation left out
DryRunMode_NotNegated(args) == args.execute

DryRunMode(args) == ~ args.execute

(* ------------------------- image reference parser --------------------- *)
FirstColon(s) ==
    IF \E i \in 1..Len(s) : s[i] = Colon
    THEN CHOOSE i \in 1..Len(s) : s[i] = Colon /\ \A j \in 1..(i - 1) : s[j] # Colon
    ELSE 0

\* ([^:]+):(.+)$ anchored at the start of s
TailMatch(s) == FirstColon(s) > 1 /\ FirstColon(s) < Len(s)

Tail_(s, i) == SubSeq(s, i + 1, Len(s))

\* the ends of the prefixes that (?:.*\.azurecr\.io/) can take
HostEnds(s) == { i \in 1..Len(s) : s[i] = AcrHost /\ TailMatch(Tail_(s, i)) }

SetMax(S) == CHOOSE x \in S : \A y \in S : y <= x

None == [ok |-> FALSE, repository |-> <<>>, tag |-> <<>>, full_image_name |-> <<>>]

\* the pattern without its optional (?:.*\.azurecr\.io/) group
extract_web_apps_images_NoHostStrip(registry_url) ==
    IF registry_url = <<>> THEN None
    ELSE LET c == FirstColon(registry_url)
         IN  IF TailMatch(registry_url)
             THEN LET repository_name == SubSeq(registry_url, 1, c - 1)
                      tag == SubSeq(registry_url, c + 1, Len(registry_url))
                  IN  [ok |-> TRUE, repository |-> repository_name, tag |-> tag,
                       full_image_name |-> repository_name \o <<Colon>> \o tag]
             ELSE None

extract_web_apps_images(registry_url) ==
    IF registry_url = <<>> THEN None
    ELSE LET start == IF HostEnds(registry_url) # {} THEN SetMax(HostEnds(registry_url)) ELSE 0
             rest  == Tail_(registry_url, start)
             c     == FirstColon(rest)
         IN  IF TailMatch(rest)
             THEN LET repository_name == SubSeq(rest, 1, c - 1)
                      tag == SubSeq(rest, c + 1, Len(rest))
                  IN  [ok |-> TRUE, repository |-> repository_name, tag |-> tag,
                       full_image_name |-> repository_name \o <<Colon>> \o tag]
             ELSE None

(* ------------------------------ collector ----------------------------- *)
StartsWithDocker(fx) == Len(fx) > 0 /\ fx[1] = DockerMarker

\* str.replace('DOCKER|', '') removes every occurrence
StripDocker(fx) == SelectSeq(fx, LAMBDA t : t # DockerMarker)

\* one "Check Linux/Windows container configuration" block: the image
\* references it adds
FxExtracted(fx) ==
    IF fx # <<>> /\ StartsWithDocker(fx) /\ extract_web_apps_images(StripDocker(fx)).ok
    THEN { extract_web_apps_images(StripDocker(fx)) }
    ELSE {}

\* only the Linux block, the Windows block left out
ConfigExtracted_LinuxOnly(cfg) == FxExtracted(cfg.linux_fx_version)

ConfigExtracted(cfg) ==
    FxExtracted(cfg.linux_fx_version) \cup FxExtracted(cfg.windows_fx_version)

\* The references a fetched configuration holds: both descriptor fields,
\* each counted when it carries the DOCKER| marker and parses.
DescriptorRefs(cfg) ==
    { extract_web_apps_images(StripDocker(d)) :
        d \in { f \in {cfg.linux_fx_version, cfg.windows_fx_version} :
                  /\ StartsWithDocker(f)
                  /\ extract_web_apps_images(StripDocker(f)).ok } }

FullNames(refs) == { r.full_image_name : r \in refs }
Repositories(refs) == { r.repository : r \in refs }

(* ------------------------------- state -------------------------------- *)
NoSummary ==
    [printed |-> FALSE, total_attempted |-> 0, total_successful |-> 0,
     total_failed |-> 0, errors |-> <<>>, repos_with_no_unused |-> {}]

\* the state of a run before main() has done anything
NotStarted ==
    /\ exit_status = -1
    /\ dry_run = TRUE
    /\ web_apps = <<>>
    /\ app_idx = 0
    /\ slots = 0
    /\ slot_idx = 0
    /\ images = {}
    /\ repositories = {}
    /\ all_images = {}
    /\ all_repositories = {}
    /\ live = {}
    /\ fetched = {}
    /\ web_calls = [get |-> 0, list_slots |-> 0, slots_pending |-> 0]
    /\ provider_contacted = FALSE
    /\ todo = {}
    /\ enumerated = {}
    /\ unused_images = <<>>
    /\ del_repo = 0
    /\ del_tag = 0
    /\ deletion_results = <<>>
    /\ delete_calls = <<>>
    /\ cleanup_todo = {}
    /\ cleanup_visited = {}
    /\ untagged_found = {}
    /\ manifest_calls = {}
    /\ summary = NoSummary

Init ==
    /\ argv \in [dry_run : BOOLEAN, execute : BOOLEAN, cleanup_manifests : BOOLEAN]
    /\ env_ok \in BOOLEAN
    /\ config_file \in ConfigFiles
    /\ pc = "start"
    /\ image_url = <<>>
    /\ image_extracted = None
    /\ NotStarted

collect_vars == <<app_idx, slots, slot_idx, images, repositories,
                  all_images, all_repositories, live, fetched, web_calls>>
identify_vars == <<todo, enumerated, unused_images>>
delete_vars == <<del_repo, del_tag, deletion_results, delete_calls>>
cleanup_vars == <<cleanup_todo, cleanup_visited, untagged_found, manifest_calls>>
input_vars == <<argv, env_ok, config_file>>
parser_vars == <<image_url, image_extracted>>

(* ------------------------- main(): set-up ----------------------------- *)
\* parse_args, dry_run, Reaper(...), load_configs, the empty-list exit
Setup ==
    /\ pc = "start"
    /\ dry_run' = DryRunMode(parse_args(argv))
    /\ LET loaded == load_configs(config_file)
       IN  IF ~ env_ok \/ loaded.raised
           THEN /\ pc' = "exit"
                /\ exit_status' = 1
                /\ UNCHANGED <<web_apps, app_idx>>
           ELSE IF loaded.web_apps = <<>>
           THEN /\ pc' = "exit"
                /\ exit_status' = 0
                /\ UNCHANGED <<web_apps, app_idx>>
           ELSE /\ pc' = "get_prod"
                /\ web_apps' = loaded.web_apps
                /\ app_idx' = 1
                /\ UNCHANGED exit_status
    /\ UNCHANGED <<input_vars, parser_vars, slots, slot_idx, images, repositories,
                   all_images, all_repositories, live, fetched, web_calls,
                   provider_contacted, identify_vars, delete_vars,
                   cleanup_vars, summary>>

(* --------------------- get_webapps_slots_images ----------------------- *)
\* web_apps.get for the production slot, inside the first try
GetProd ==
    /\ pc = "get_prod"
    /\ \E cfg \in SiteConfigs, ok \in BOOLEAN :
         /\ live' = live \cup DescriptorRefs(cfg)
         /\ IF ok
            THEN /\ images' = FullNames(ConfigExtracted(cfg))
                 /\ repositories' = Repositories(ConfigExtracted(cfg))
                 /\ fetched' = fetched \cup DescriptorRefs(cfg)
            ELSE /\ images' = {}
                 /\ repositories' = {}
                 /\ UNCHANGED fetched
    /\ web_calls' = [web_calls EXCEPT !.get = @ + 1]
    /\ provider_contacted' = TRUE
    /\ pc' = "list_slots"
    /\ UNCHANGED <<input_vars, parser_vars, exit_status, dry_run, web_apps, app_idx, slots,
                   slot_idx, all_images, all_repositories, identify_vars,
                   delete_vars, cleanup_vars, summary>>

\* web_apps.list_slots: the iteration yields n slots before it ends or raises
ListSlots ==
    /\ pc = "list_slots"
    /\ \E n \in 0..MaxSlots :
         /\ slots' = n
         /\ web_calls' = [web_calls EXCEPT !.list_slots = @ + 1,
                                            !.slots_pending = n]
         /\ slot_idx' = 1
         /\ pc' = IF n = 0 THEN "merge" ELSE "get_slot"
    /\ UNCHANGED <<input_vars, parser_vars, exit_status, dry_run, web_apps, app_idx, images,
                   repositories, all_images, all_repositories, live, fetched,
                   provider_contacted, identify_vars, delete_vars,
                   cleanup_vars, summary>>

\* web_apps.get_configuration_slot for one slot, inside the inner try
GetSlotConfig ==
    /\ pc = "get_slot"
    /\ \E cfg \in SiteConfigs, ok \in BOOLEAN :
         /\ live' = live \cup DescriptorRefs(cfg)
         /\ IF ok
            THEN /\ images' = images \cup FullNames(ConfigExtracted(cfg))
                 /\ repositories' = repositories \cup Repositories(ConfigExtracted(cfg))
                 /\ fetched' = fetched \cup DescriptorRefs(cfg)
            ELSE UNCHANGED <<images, repositories, fetched>>
    /\ web_calls' = [web_calls EXCEPT !.slots_pending = @ - 1]
    /\ slot_idx' = slot_idx + 1
    /\ pc' = IF slot_idx = slots THEN "merge" ELSE "get_slot"
    /\ UNCHANGED <<input_vars, parser_vars, exit_status, dry_run, web_apps, app_idx, slots,
                   all_images, all_repositories, provider_contacted,
                   identify_vars, delete_vars, cleanup_vars, summary>>

(* ------------------------ get_all_web_apps_data ----------------------- *)
\* the update of the totals for one web app; after the last web app, main's
\* "nothing to clean" exit or the start of identify_unused_images
MergeWebApp ==
    /\ pc = "merge"
    /\ all_images' = all_images \cup images
    /\ all_repositories' = all_repositories \cup repositories
    /\ IF app_idx < Len(web_apps)
       THEN /\ app_idx' = app_idx + 1
            /\ pc' = "get_prod"
            /\ UNCHANGED <<exit_status, todo>>
       ELSE /\ UNCHANGED app_idx
            /\ IF all_repositories' = {}
               THEN /\ pc' = "exit"
                    /\ exit_status' = 0
                    /\ UNCHANGED todo
               ELSE /\ pc' = "identify"
                    /\ todo' = all_repositories'
                    /\ UNCHANGED exit_status
    \* the locals of the call that returned are gone
    /\ images' = {}
    /\ repositories' = {}
    /\ slots' = 0
    /\ slot_idx' = 0
    /\ UNCHANGED <<input_vars, parser_vars, dry_run, web_apps, live, fetched, web_calls,
                   provider_contacted, enumerated, unused_images, delete_vars,
                   cleanup_vars, summary>>

(* ---------------------- identify_unused_images ------------------------ *)
\* list_tag_properties answers with a listing, or raises and [] is returned
get_acr_repository_tags(ok, listing) == IF ok THEN listing ELSE <<>>

\* the membership test on the bare tag instead of repository:tag
UnusedTags_ByTagOnly(repository, all_tags, protected_images) ==
    SelectSeq(all_tags, LAMBDA tag : tag \notin protected_images)

\* the classification loop over all_tags
UnusedTags(repository, all_tags, protected_images) ==
    SelectSeq(all_tags, LAMBDA tag : (repository \o <<Colon>> \o tag) \notin protected_images)

\* the deletion started as soon as one repository has an unused tag
IdentifyRepository_DeletesEarly ==
    /\ pc = "identify"
    /\ \E repository \in todo, ok \in BOOLEAN, listing \in TagLists :
         /\ ~ ok => listing = <<>>
         /\ LET all_tags == get_acr_repository_tags(ok, listing)
                unused_tags == UnusedTags(repository, all_tags, all_images)
            IN  /\ enumerated' = enumerated \cup
                       { [repository |-> repository, tags |-> all_tags] }
                /\ unused_images' =
                       IF unused_tags # <<>>
                       THEN Append(unused_images,
                                   [repository |-> repository, tags |-> unused_tags])
                       ELSE unused_images
                /\ todo' = todo \ {repository}
         /\ IF todo' # {} /\ unused_images' = <<>>
            THEN /\ pc' = "identify"
                 /\ UNCHANGED <<del_repo, del_tag>>
            ELSE IF unused_images' = <<>>
            THEN /\ pc' = "summary"
                 /\ UNCHANGED <<del_repo, del_tag>>
            ELSE /\ pc' = "delete"
                 /\ del_repo' = 1
                 /\ del_tag' = 1
    /\ UNCHANGED <<input_vars, parser_vars, exit_status, dry_run, web_apps, collect_vars,
                   provider_contacted, deletion_results, delete_calls,
                   cleanup_vars, summary>>

\* one iteration of "for repository in repositories" (a set: any order);
\* after the last one, main's choice between deleting and the summary
IdentifyRepository ==
    /\ pc = "identify"
    /\ \E repository \in todo, ok \in BOOLEAN, listing \in TagLists :
         /\ ~ ok => listing = <<>>
         /\ LET all_tags == get_acr_repository_tags(ok, listing)
                unused_tags == UnusedTags(repository, all_tags, all_images)
            IN  /\ enumerated' = enumerated \cup
                       { [repository |-> repository, tags |-> all_tags] }
                /\ unused_images' =
                       IF unused_tags # <<>>
                       THEN Append(unused_images,
                                   [repository |-> repository, tags |-> unused_tags])
                       ELSE unused_images
                /\ todo' = todo \ {repository}
         /\ IF todo' # {}
            THEN /\ pc' = "identify"
                 /\ UNCHANGED <<del_repo, del_tag>>
            ELSE IF unused_images' = <<>>
            THEN /\ pc' = "summary"
                 /\ UNCHANGED <<del_repo, del_tag>>
            ELSE /\ pc' = "delete"
                 /\ del_repo' = 1
                 /\ del_tag' = 1
    /\ UNCHANGED <<input_vars, parser_vars, exit_status, dry_run, web_apps, collect_vars,
                   provider_contacted, deletion_results, delete_calls,
                   cleanup_vars, summary>>

(* ------------------------ delete_unused_images ------------------------ *)
NewResult(repository, tags) ==
    [repository |-> repository, attempted |-> Len(tags), successful |-> 0,
     failed |-> 0, errors |-> <<>>]

ErrorMsg(repository, tag) ==
    <<"Failed to delete ">> \o repository \o <<Colon>> \o tag \o <<": ", "error">>

\* successful incremented after the try block, so also for a failed tag
TagResult_CountsFailureToo(result, repository, tag, ok) ==
    IF ok
    THEN [result EXCEPT !.successful = @ + 1]
    ELSE [result EXCEPT !.successful = @ + 1,
                        !.failed = @ + 1,
                        !.errors = Append(@, ErrorMsg(repository, tag))]

\* the body of "for tag in tags" for one tag whose delete_tag call, if one
\* is made, succeeds (ok) or raises
TagResult(result, repository, tag, ok) ==
    IF ok
    THEN [result EXCEPT !.successful = @ + 1]
    ELSE [result EXCEPT !.failed = @ + 1,
                        !.errors = Append(@, ErrorMsg(repository, tag))]

\* a failed delete_tag call made a second time
TagDeletionCalls_Retry(calls, repository, tag, ok, dry) ==
    IF dry THEN calls
    ELSE IF ok
    THEN Append(calls, [repository |-> repository, tag |-> tag, ok |-> ok])
    ELSE calls \o << [repository |-> repository, tag |-> tag, ok |-> ok],
                     [repository |-> repository, tag |-> tag, ok |-> ok] >>

\* the delete_tag calls after this tag: one more, unless it is a dry run
TagDeletionCalls(calls, repository, tag, ok, dry) ==
    IF ~ dry
    THEN Append(calls, [repository |-> repository, tag |-> tag, ok |-> ok])
    ELSE calls

\* one tag of one repository of unused_images.items(); the repository's
\* result is created before its first tag
DeleteTag ==
    /\ pc = "delete"
    /\ \E ok \in BOOLEAN :
         /\ dry_run => ok
         /\ LET entry == unused_images[del_repo]
                tag == entry.tags[del_tag]
                results == IF del_tag = 1
                           THEN Append(deletion_results,
                                       NewResult(entry.repository, entry.tags))
                           ELSE deletion_results
            IN  /\ delete_calls' =
                       TagDeletionCalls(delete_calls, entry.repository, tag, ok, dry_run)
                /\ deletion_results' =
                       [results EXCEPT ![del_repo] =
                           TagResult(@, entry.repository, tag, ok)]
                /\ IF del_tag < Len(entry.tags)
                   THEN /\ del_tag' = del_tag + 1
                        /\ UNCHANGED <<del_repo, pc, cleanup_todo>>
                   ELSE IF del_repo < Len(unused_images)
                   THEN /\ del_repo' = del_repo + 1
                        /\ del_tag' = 1
                        /\ UNCHANGED <<pc, cleanup_todo>>
                   ELSE /\ UNCHANGED <<del_repo, del_tag>>
                        /\ IF parse_args(argv).cleanup_manifests
                           THEN /\ pc' = "cleanup"
                                /\ cleanup_todo' = all_repositories
                           ELSE /\ pc' = "summary"
                                /\ UNCHANGED cleanup_todo
    /\ UNCHANGED <<input_vars, parser_vars, exit_status, dry_run, web_apps, collect_vars,
                   provider_contacted, identify_vars, cleanup_visited,
                   untagged_found, manifest_calls, summary>>

(* ----------------------- cleanup_unused_manifests --------------------- *)
\* the manifests of a listing reported as "Found untagged manifest"
Untagged(repository, manifests) ==
    { [repository |-> repository, digest |-> manifests[i].digest] :
        i \in { j \in 1..Len(manifests) : ~ manifests[j].tagged } }

\* delete_manifest called without looking at dry_run
ManifestDeletions_IgnoresDryRun(repository, manifests, dry) ==
    Untagged(repository, manifests)

\* the delete_manifest calls made for one repository's manifests
ManifestDeletions(repository, manifests, dry) ==
    IF dry THEN {} ELSE Untagged(repository, manifests)

\* one iteration of "for repository in repositories": the listing answers
\* with manifests, or raises (ok = FALSE); a delete_manifest failure is
\* logged and changes nothing else
CleanupRepository ==
    /\ pc = "cleanup"
    /\ \E repository \in cleanup_todo, ok \in BOOLEAN, manifests \in ManifestLists :
         /\ ~ ok => manifests = <<>>
         /\ cleanup_visited' = cleanup_visited \cup {repository}
         /\ untagged_found' = untagged_found \cup Untagged(repository, manifests)
         /\ manifest_calls' = manifest_calls \cup
                                ManifestDeletions(repository, manifests, dry_run)
         /\ cleanup_todo' = cleanup_todo \ {repository}
         /\ pc' = IF cleanup_todo' = {} THEN "summary" ELSE "cleanup"
    /\ UNCHANGED <<input_vars, parser_vars, exit_status, dry_run, web_apps, collect_vars,
                   provider_contacted, identify_vars, delete_vars, summary>>

(* ----------------------------- print_summary -------------------------- *)
RECURSIVE SumField(_, _)
SumField(results, field) ==
    IF results = <<>> THEN 0
    ELSE results[1][field] + SumField(Tail(results), field)

RECURSIVE AllErrors(_)
AllErrors(results) ==
    IF results = <<>> THEN <<>>
    ELSE results[1].errors \o AllErrors(Tail(results))

Keys(dict) == { dict[i].repository : i \in 1..Len(dict) }

\* the per-repository "Errors encountered" listing left out
print_summary_NoErrors(results, protected_images, repositories_cleaned) ==
    [printed |-> TRUE,
     total_attempted |-> SumField(results, "attempted"),
     total_successful |-> SumField(results, "successful"),
     total_failed |-> SumField(results, "failed"),
     errors |-> <<>>,
     repos_with_no_unused |-> repositories_cleaned \ Keys(results)]

print_summary(results, protected_images, repositories_cleaned) ==
    [printed |-> TRUE,
     total_attempted |-> SumField(results, "attempted"),
     total_successful |-> SumField(results, "successful"),
     total_failed |-> SumField(results, "failed"),
     errors |-> AllErrors(results),
     repos_with_no_unused |-> repositories_cleaned \ Keys(results)]

\* the summary and the normal end of main
PrintSummary ==
    /\ pc = "summary"
    /\ summary' = print_summary(deletion_results, all_images, all_repositories)
    /\ pc' = "exit"
    /\ exit_status' = 0
    /\ UNCHANGED <<input_vars, parser_vars, dry_run, web_apps, collect_vars,
                   provider_contacted, identify_vars, delete_vars, cleanup_vars>>

Next ==
    \/ Setup
    \/ GetProd
    \/ ListSlots
    \/ GetSlotConfig
    \/ MergeWebApp
    \/ IdentifyRepository
    \/ DeleteTag
    \/ CleanupRepository
    \/ PrintSummary

Spec == Init /\ [][Next]_vars

(* ------------- the parser and one collector block on their own -------- *)
\* extract_web_apps_images and the container block that calls it, applied
\* to every locator rather than to the few a run of main() meets
ParseInit ==
    /\ argv = [dry_run |-> TRUE, execute |-> FALSE, cleanup_manifests |-> FALSE]
    /\ env_ok = TRUE
    /\ config_file = [kind |-> "ok", webApps |-> <<>>]
    /\ pc = "parse"
    /\ image_url \in Locators
    /\ image_extracted = None
    /\ NotStarted

\* image_extracted = self.extract_web_apps_images(image_url)
ExtractImage ==
    /\ pc = "parse"
    /\ image_extracted' = extract_web_apps_images(image_url)
    /\ pc' = "parsed"
    /\ UNCHANGED <<input_vars, image_url, exit_status, dry_run, web_apps,
                   collect_vars, provider_contacted, identify_vars,
                   delete_vars, cleanup_vars, summary>>

\* the "Check Linux container configuration" block for a configuration
\* whose linux_fx_version is 'DOCKER|' + image_url
CollectDescriptor ==
    /\ pc = "parsed"
    /\ images' = images \cup FullNames(FxExtracted(<<DockerMarker>> \o image_url))
    /\ repositories' = repositories
                          \cup Repositories(FxExtracted(<<DockerMarker>> \o image_url))
    /\ pc' = "collected"
    /\ UNCHANGED <<input_vars, parser_vars, exit_status, dry_run, web_apps,
                   app_idx, slots, slot_idx, all_images, all_repositories,
                   live, fetched, web_calls, provider_contacted, identify_vars,
                   delete_vars, cleanup_vars, summary>>

ParseNext ==
    \/ ExtractImage
    \/ CollectDescriptor

ParseSpec == ParseInit /\ [][ParseNext]_vars

\* the run is a sequential program: a step that can be taken is taken
FairSpec == Spec /\ WF_vars(Next)

TypeOK ==
    /\ pc \in {"start", "get_prod", "list_slots", "get_slot", "merge",
               "identify", "delete", "cleanup", "summary", "exit",
               "parse", "parsed", "collected"}
    /\ exit_status \in {-1, 0, 1}
    /\ dry_run \in BOOLEAN

(* ============================== claims ================================ *)
Finished == pc = "exit"
CollectionDone == pc \in {"identify", "delete", "cleanup", "summary"}
                    \/ (pc = "exit" /\ web_calls.get > 0)
DeletionDone == pc \in {"cleanup", "summary"} \/ (pc = "exit" /\ summary.printed)

ImageOf(call) == call.repository \o <<Colon>> \o call.tag

\* C1: in execute mode no delete_tag call is made for a repository:tag that
\* the DOCKER| descriptor of a listed web app's production configuration or
\* of one of its slots references, whichever provider calls failed during
\* collection.
C1_LiveImageNeverDeleted ==
    \A i \in 1..Len(delete_calls) : ImageOf(delete_calls[i]) \notin FullNames(live)

\* C2: in a dry run neither delete_tag nor delete_manifest is called, and
\* every returned outcome has successful = attempted, failed = 0 and no
\* errors.
C2_DryRunDeletesNothing ==
    (pc # "start" /\ dry_run) =>
        /\ delete_calls = <<>>
        /\ manifest_calls = {}
        /\ DeletionDone =>
             \A i \in 1..Len(deletion_results) :
                 /\ deletion_results[i].successful = deletion_results[i].attempted
                 /\ deletion_results[i].failed = 0
                 /\ deletion_results[i].errors = <<>>

C2_Witness ==
    /\ Finished
    /\ dry_run
    /\ Len(deletion_results) > 0
    /\ untagged_found # {}

\* C3: a deletion call (delete_tag or delete_manifest) occurs only in a run
\* given --execute; --dry-run alone, or no mode option, gives none.
C3_DeletionOnlyWithExecute ==
    (delete_calls # <<>> \/ manifest_calls # {}) => argv.execute

C3_Witness ==
    /\ Finished
    /\ ~ argv.execute
    /\ argv.cleanup_manifests
    /\ summary.total_attempted > 0
    /\ untagged_found # {}

\* C4: every outcome delete_unused_images returns has attempted =
\* successful + failed, failed = len(errors) and attempted = the number of
\* unused tags of its repository.
C4_OutcomeCounts ==
    DeletionDone =>
        /\ Len(deletion_results) = Len(unused_images)
        /\ \A i \in 1..Len(deletion_results) :
             /\ deletion_results[i].repository = unused_images[i].repository
             /\ deletion_results[i].attempted = Len(unused_images[i].tags)
             /\ deletion_results[i].attempted =
                    deletion_results[i].successful + deletion_results[i].failed
             /\ deletion_results[i].failed = Len(deletion_results[i].errors)

C4_Witness ==
    /\ Finished
    /\ \E i \in 1..Len(deletion_results) :
         deletion_results[i].failed > 0 /\ deletion_results[i].successful > 0

\* the (repository, tag) pairs of an unused-image map, in the map's order
RECURSIVE Pairs(_)
Pairs(dict) ==
    IF dict = <<>> THEN <<>>
    ELSE [i \in 1..Len(dict[1].tags) |-> <<dict[1].repository, dict[1].tags[i]>>]
           \o Pairs(Tail(dict))

CallsOf(repository) == SelectSeq(delete_calls, LAMBDA c : c.repository = repository)

\* C5: in execute mode a failing delete_tag stops nothing: exactly one call
\* is made for every (repository, tag) of the map, in the map's order, with
\* no retry; the failed tags are in their repository's errors, in order,
\* and the others are counted as successful.
C5_EveryTagTriedOnce ==
    (DeletionDone /\ ~ dry_run) =>
        /\ [i \in 1..Len(delete_calls) |->
               <<delete_calls[i].repository, delete_calls[i].tag>>] = Pairs(unused_images)
        /\ \A i \in 1..Len(deletion_results) :
             LET mine == CallsOf(deletion_results[i].repository)
                 bad == SelectSeq(mine, LAMBDA c : ~ c.ok)
             IN  /\ deletion_results[i].errors =
                        [k \in 1..Len(bad) |-> ErrorMsg(bad[k].repository, bad[k].tag)]
                 /\ deletion_results[i].successful = Len(mine) - Len(bad)

C5_Witness ==
    /\ Finished
    /\ ~ dry_run
    /\ Len(unused_images) > 1
    /\ \E i, j \in 1..Len(delete_calls) :
         /\ i < j
         /\ ~ delete_calls[i].ok
         /\ delete_calls[j].ok
         /\ delete_calls[i].repository = delete_calls[j].repository

\* the tags of a listing whose image is not protected, in listing order
RECURSIVE Difference(_, _, _)
Difference(repository, tags, protected) ==
    IF tags = <<>> THEN <<>>
    ELSE IF (repository \o <<Colon>> \o Head(tags)) \in protected
    THEN Difference(repository, Tail(tags), protected)
    ELSE <<Head(tags)>> \o Difference(repository, Tail(tags), protected)

\* C6: identify_unused_images maps repository R to exactly the tags listed
\* for R whose R:tag is not protected, in listing order; a repository with
\* no such tag (all protected, none listed, listing failed) is no key, and
\* no key is outside the discovered set.
C6_IdentifyIsDifference ==
    /\ \A i, j \in 1..Len(unused_images) :
         unused_images[i].repository = unused_images[j].repository => i = j
    /\ \A i \in 1..Len(unused_images) :
         /\ unused_images[i].repository \in all_repositories
         /\ unused_images[i].tags # <<>>
         /\ \E e \in enumerated :
              /\ e.repository = unused_images[i].repository
              /\ unused_images[i].tags = Difference(e.repository, e.tags, all_images)
    /\ \A e \in enumerated :
         Difference(e.repository, e.tags, all_images) # <<>>
            => e.repository \in Keys(unused_images)
    /\ (CollectionDone /\ pc # "identify") =>
         { e.repository : e \in enumerated } = all_repositories

C6_Witness ==
    /\ Finished
    /\ \E e \in enumerated :
         /\ e.tags # <<>>
         /\ e.repository \notin Keys(unused_images)
    /\ \E e \in enumerated :
         /\ e.repository \in Keys(unused_images)
         /\ \E k \in 1..Len(e.tags) : (e.repository \o <<Colon>> \o e.tags[k]) \in all_images

C8_CleanupVisitsAll ==
    (Finished /\ all_repositories # {}) =>
        /\ argv.cleanup_manifests =>
             /\ cleanup_visited = all_repositories
             /\ ~ dry_run => manifest_calls = untagged_found
        /\ ~ argv.cleanup_manifests => cleanup_visited = {}

FatalKinds == {"missing", "invalid_json", "not_object", "webApps_not_list"}

\* C9 as stated: a missing file, invalid JSON, a non-object, an object
\* without webApps or with a non-list webApps ends the run with a non-zero
\* status before any provider call; only a well-formed configuration with
\* an empty list ends it with status 0 as nothing to do.
C9_MalformedConfigIsFatal ==
    Finished =>
        /\ config_file.kind \in FatalKinds \cup {"no_webApps"}
             => (exit_status # 0 /\ ~ provider_contacted)
        /\ (exit_status = 0 /\ ~ provider_contacted)
             => (config_file.kind = "ok" /\ config_file.webApps = <<>>)

\* C9 amended: a missing file, invalid JSON, a non-object or a non-list
\* webApps ends the run with a non-zero status before any provider call; an
\* object without webApps is read as an empty list, and only an empty or
\* absent list ends the run with status 0 as nothing to do, which it does
\* whenever the clients could be created.
C9_ConfigSetupErrors ==
    Finished =>
        /\ config_file.kind \in FatalKinds
             => (exit_status = 1 /\ ~ provider_contacted)
        /\ (exit_status = 0 /\ ~ provider_contacted)
             <=> /\ env_ok
                 /\ \/ config_file.kind = "no_webApps"
                    \/ (config_file.kind = "ok" /\ config_file.webApps = <<>>)

C9_Witness ==
    /\ Finished
    /\ config_file.kind = "no_webApps"
    /\ exit_status = 0
    /\ ~ provider_contacted

SetupSucceeded == pc # "start" /\ exit_status # 1

CompletedRun ==
    /\ Finished
    /\ exit_status = 0
    /\ all_repositories # {} =>
         /\ summary.printed
         /\ \A i \in 1..Len(delete_calls) :
              ~ delete_calls[i].ok =>
                  ErrorMsg(delete_calls[i].repository, delete_calls[i].tag)
                      \in Range(summary.errors)

\* C10: once set-up has succeeded no provider failure ends the run: it
\* terminates with exit status 0 and, when a repository was discovered,
\* with the summary printed, every failed tag deletion in it with its
\* message.
C10_RunCompletes ==
    /\ [](Finished => (exit_status = 1 \/ CompletedRun))
    /\ (SetupSucceeded ~> CompletedRun)

C10_Witness ==
    /\ Finished
    /\ exit_status = 0
    /\ summary.errors # <<>>
    /\ live # fetched
    /\ \E e \in enumerated : e.tags = <<>>

(* ---------------------- claims about the parser ----------------------- *)
Parsed == pc \in {"parsed", "collected"}

Without(s, t) == \A k \in 1..Len(s) : s[k] # t

\* the reference parse is to return for repository r and tag t
Reference(r, t) ==
    [ok |-> TRUE, repository |-> r, tag |-> t, full_image_name |-> r \o <<Colon>> \o t]

\* image_url read as [host/]repo:tag with the host prefix ending at
\* position h (0: no host) and the separating colon at position c
HostAt(h) == h = 0 \/ image_url[h] = AcrHost
RepoAt(h, c) == SubSeq(image_url, h + 1, c - 1)
TagAt(c) == SubSeq(image_url, c + 1, Len(image_url))

ParsedAs(r, t) ==
    /\ image_extracted = Reference(r, t)
    /\ extract_web_apps_images(r \o <<Colon>> \o t).full_image_name
         = image_extracted.full_image_name
    /\ Without(image_extracted.repository, Colon)

\* C11 as stated: for every locator [host/]repo:tag with repo and tag
\* non-empty, parse splits at the final colon (the tag is what follows the
\* last colon) and returns repository = repo, tag = tag and
\* full_image_name = repo:tag; the host-stripped form gives the same
\* full_image_name and the repository has no colon.
C11_SplitsAtFinalColon ==
    Parsed =>
        \A h \in 0..Len(image_url), c \in 1..Len(image_url) :
            ( /\ h < c
              /\ HostAt(h)
              /\ image_url[c] = Colon
              /\ RepoAt(h, c) # <<>>
              /\ Without(RepoAt(h, c), AcrHost)
              /\ TagAt(c) # <<>>
              /\ Without(TagAt(c), Colon)
              /\ Without(TagAt(c), AcrHost) )
            => ParsedAs(RepoAt(h, c), TagAt(c))

\* C11 amended: for every locator [host/]repo:tag where host, when present,
\* ends in .azurecr.io/, repo is non-empty with no colon and no
\* .azurecr.io/, and tag is non-empty with no .azurecr.io/ (it may hold
\* colons), parse splits at the first colon after the host prefix and
\* returns repository = repo, tag = tag and full_image_name = repo:tag; the
\* host-stripped form gives the same full_image_name and the repository has
\* no colon.
C11_SplitsAtFirstColon ==
    Parsed =>
        \A h \in 0..Len(image_url), c \in 1..Len(image_url) :
            ( /\ h < c
              /\ HostAt(h)
              /\ image_url[c] = Colon
              /\ RepoAt(h, c) # <<>>
              /\ Without(RepoAt(h, c), Colon)
              /\ Without(RepoAt(h, c), AcrHost)
              /\ TagAt(c) # <<>>
              /\ Without(TagAt(c), AcrHost) )
            => ParsedAs(RepoAt(h, c), TagAt(c))

C11_Witness ==
    /\ pc = "parsed"
    /\ image_url = <<"a", AcrHost, "b", Colon, "a">>
    /\ image_extracted = Reference(<<"b">>, <<"a">>)

\* the end of the registry-host prefix of s: its last .azurecr.io/, 0 when
\* there is none
HostPrefixEnd(s) ==
    IF \E i \in 1..Len(s) : s[i] = AcrHost
    THEN SetMax({ i \in 1..Len(s) : s[i] = AcrHost })
    ELSE 0

HostStripped(s) == Tail_(s, HostPrefixEnd(s))

\* nothing before the separating colon, or nothing after it
EmptyRepository(s) == FirstColon(s) = 1
EmptyTag(s) == FirstColon(s) > 0 /\ FirstColon(s) = Len(s)

InvalidLocator(s) ==
    \/ s = <<>>
    \/ Without(s, Colon)
    \/ EmptyRepository(HostStripped(s))
    \/ EmptyTag(HostStripped(s))

\* C12: for every locator that is empty, has no colon, or has an empty
\* repository or an empty tag once the optional registry-host prefix is
\* stripped, extract_web_apps_images returns None and the collector block
\* adds nothing to images or repositories for it.
C12_InvalidLocatorRejected ==
    (Parsed /\ InvalidLocator(image_url)) =>
        /\ image_extracted = None
        /\ pc = "collected" => (images = {} /\ repositories = {})

(* ------------------- claims about the order of a run ------------------ *)
EnumeratedFor(repository) ==
    UNION { Range(e.tags) : e \in { x \in enumerated : x.repository = repository } }

\* C13: every delete_tag call is made after get_all_web_apps_data has gone
\* through all listed web apps and identify_unused_images through all
\* discovered repositories; it targets a repository of all_repositories and
\* a tag listed for that repository in this run, whose repository:tag is
\* not in all_images; and all_images does not change once collection has
\* ended.
C13_DeleteAfterIdentify ==
    /\ [](delete_calls # <<>> =>
            /\ pc \in {"delete", "cleanup", "summary", "exit"}
            /\ app_idx = Len(web_apps)
            /\ web_calls.get = Len(web_apps)
            /\ todo = {}
            /\ { e.repository : e \in enumerated } = all_repositories
            /\ \A i \in 1..Len(delete_calls) :
                   /\ delete_calls[i].repository \in all_repositories
                   /\ delete_calls[i].tag \in EnumeratedFor(delete_calls[i].repository)
                   /\ ImageOf(delete_calls[i]) \notin all_images)
    /\ [][CollectionDone => all_images' = all_images]_vars

C13_Witness ==
    /\ pc = "summary"
    /\ delete_calls # <<>>
    /\ Len(web_apps) = 2
    /\ Cardinality(all_repositories) = 2
    /\ \E e \in enumerated : \E t \in Range(e.tags) :
           (e.repository \o <<Colon>> \o t) \in all_images
====
